---- MODULE Spec2Model ----
(***************************************************************************)
(* Sky and Sea Alert (sky_and_sea_alert.py): the alert pipeline.           *)
(*                                                                         *)
(* The model covers the suppression cache (_suppress, _last_alert_ts),     *)
(* the two record loops (_aircraft_alert_lines, _vessel_alert_lines) and   *)
(* the single-shot orchestrator (_single_shot).  A provider fetch is an    *)
(* input: it either raises or returns a list of JSON values.               *)
(*                                                                         *)
(* Units.  Time is in seconds.  Distances and radii are in hundredths of a *)
(* mile; a latitude is given in hundredths of a mile of arc along the      *)
(* observer's meridian, so that the great-circle distance of a point on    *)
(* that meridian is the difference of the latitudes.                       *)
(***************************************************************************)
EXTENDS Integers, Sequences, FiniteSets, TLC

VARIABLES
    SSA_SUPPRESS_MINUTES,  \* configuration, read once at import (line 84)
    SSA_VESSEL_RADIUS_MI,  \* configuration, read once at import (line 81)
    now,                   \* what time.time() returns
    _last_alert_ts,        \* the suppression cache: key -> time of last record
    pc,                    \* position of the caller / of _single_shot
    mode,                  \* main's local: the mode it passes to _single_shot
    mesh_compact,          \* main's local: the rendering flag it passes
    lines,                 \* _single_shot's local: the lines produced so far
    had_error,             \* _single_shot's local
    ac,                    \* _single_shot's local: the aircraft fetch's result
    ships,                 \* _single_shot's local: the vessel fetch's result
    sup_log,               \* history: the _suppress calls of the last record loop
    cache0,                \* history: the cache when this invocation began
    last_emit,             \* history: key -> time of its last returned alert
    prev,                  \* history: the previous invocation's result
    shots,                 \* history: number of invocations begun
    fetch_log,             \* history: the fetches this invocation has attempted
    MM_MESSAGE,            \* os.getenv("MESSAGE"), read once at import (line 123)
    stdout                 \* what main has printed under MeshMonitor

vars == <<SSA_SUPPRESS_MINUTES, SSA_VESSEL_RADIUS_MI, now, _last_alert_ts, pc,
          mode, mesh_compact, lines, had_error, ac, ships, sup_log, cache0,
          last_emit, prev, shots, fetch_log, MM_MESSAGE, stdout>>

(***************************************************************************)
(* Bounds of the model.                                                    *)
(***************************************************************************)
MaxLen == 2     \* longest list a fetch returns
MaxShots == 2   \* _single_shot invocations in one process

\* Seconds between the start of one invocation and the start of the next.
SleepSteps == {30, 60}

(***************************************************************************)
(* JSON values as Python sees them after json.loads.                       *)
(***************************************************************************)
None == [t |-> "none"]
NaN == [t |-> "nan"]
Num(n) == [t |-> "num", n |-> n]
Str(s) == [t |-> "str", s |-> s]
Dict(d) == [t |-> "dict", d |-> d]
EmptyDict == [t |-> "dict", d |-> [k \in {} |-> 0]]

IsNone(v) == v.t = "none"
IsDict(v) == v.t = "dict"
IsStr(v) == v.t = "str"

\* dict.get(k): None when the key is absent.
Get(v, k) == IF k \in DOMAIN v.d THEN v.d[k] ELSE None

\* Python truthiness.
Truthy(v) ==
    CASE v.t = "none" -> FALSE
      [] v.t = "nan" -> TRUE
      [] v.t = "num" -> v.n # 0
      [] v.t = "str" -> v.s # ""
      [] v.t = "dict" -> DOMAIN v.d # {}

\* a or b
Or(a, b) == IF Truthy(a) THEN a ELSE b

\* str.strip() on the strings of the model.
Strip(s) ==
    CASE s = " " -> ""
      [] s = "UAL123  " -> "UAL123"
      [] OTHER -> s

\* str(v)
PyStr(v) ==
    CASE v.t = "none" -> "None"
      [] v.t = "nan" -> "nan"
      [] v.t = "num" -> ToString(v.n)
      [] v.t = "str" -> v.s
      [] v.t = "dict" -> "{}"

\* float(v): [ok |-> FALSE] stands for ValueError / TypeError.
Float(v) ==
    CASE v.t = "num" -> [ok |-> TRUE, v |-> v]
      [] v.t = "nan" -> [ok |-> TRUE, v |-> NaN]
      [] v.t = "str" /\ v.s = "nan" -> [ok |-> TRUE, v |-> NaN]
      [] OTHER -> [ok |-> FALSE, v |-> None]

\* a > b on floats: every comparison with nan is False.
FloatGt(a, b) == a.t = "num" /\ b.t = "num" /\ a.n > b.n

\* f"{d:.1f}"
Fmt1(d) ==
    IF d.t = "nan" THEN "nan"
    ELSE LET tenths == (d.n + 5) \div 10
         IN ToString(tenths \div 10) \o "." \o ToString(tenths % 10)

Abs(x) == IF x < 0 THEN 0 - x ELSE x

(***************************************************************************)
(* Configuration.                                                          *)
(***************************************************************************)
SSA_LAT == 0
SSA_LON == 0
SSA_AIRCRAFT_RADIUS_MI == 1000

\* The configurations of the model: <<SSA_SUPPRESS_MINUTES,
\* SSA_VESSEL_RADIUS_MI, mesh_compact>>, one of them varied one value at a
\* time.  A window of one minute lets two invocations fall inside it, on its
\* boundary and beyond it.
Default == <<1, 300, FALSE>>
Configs == { Default, <<1, 300, TRUE>>, <<0, 300, FALSE>>, <<-1, 300, FALSE>>,
             <<1, 0, FALSE>> }

(***************************************************************************)
(* _haversine_miles, for two points on one meridian.                       *)
(***************************************************************************)
_haversine_miles(lat1, lon1, lat2, lon2) ==
    IF lat1.t = "nan" \/ lon1.t = "nan" \/ lat2.t = "nan" \/ lon2.t = "nan"
    THEN NaN
    ELSE CASE lon1.n = lon2.n -> Num(Abs(lat2.n - lat1.n))

(***************************************************************************)
(* _suppress(key): the returned value and the cache it leaves.             *)
(***************************************************************************)
Max(a, b) == IF a > b THEN a ELSE b

\* Variant: a window of zero or less falls back to fifteen minutes.
window_fallback ==
    (IF SSA_SUPPRESS_MINUTES <= 0 THEN 15 ELSE SSA_SUPPRESS_MINUTES) * 60

window == Max(0, SSA_SUPPRESS_MINUTES) * 60

\* Variant: recording a key drops the other entries that have expired.
Record_pruning(cache, key, t) ==
    [k \in {j \in DOMAIN cache : (t - cache[j]) < window} \cup {key}
        |-> IF k = key THEN t ELSE cache[k]]

Record(cache, key, t) ==
    [k \in DOMAIN cache \cup {key} |-> IF k = key THEN t ELSE cache[k]]

\* Variant: a suppressed hit restarts the window.
_suppress_refreshing(key, cache, t) ==
    IF window <= 0
    THEN [ret |-> FALSE, cache |-> Record(cache, key, t)]
    ELSE IF key \in DOMAIN cache /\ (t - cache[key]) < window
         THEN [ret |-> TRUE, cache |-> Record(cache, key, t)]
         ELSE [ret |-> FALSE, cache |-> Record(cache, key, t)]

\* Variant: the boundary now - last = window still suppresses.
_suppress_inclusive(key, cache, t) ==
    IF window <= 0
    THEN [ret |-> FALSE, cache |-> Record(cache, key, t)]
    ELSE IF key \in DOMAIN cache /\ (t - cache[key]) <= window
         THEN [ret |-> TRUE, cache |-> cache]
         ELSE [ret |-> FALSE, cache |-> Record(cache, key, t)]

\* Variant: a key that is not suppressed is not recorded.
_suppress_forgetful(key, cache, t) ==
    IF window <= 0
    THEN [ret |-> FALSE, cache |-> Record(cache, key, t)]
    ELSE IF key \in DOMAIN cache /\ (t - cache[key]) < window
         THEN [ret |-> TRUE, cache |-> cache]
         ELSE [ret |-> FALSE, cache |-> cache]

_suppress(key, cache, t) ==
    IF window <= 0
    THEN [ret |-> FALSE, cache |-> Record(cache, key, t)]
    ELSE IF key \in DOMAIN cache /\ (t - cache[key]) < window
         THEN [ret |-> TRUE, cache |-> cache]
         ELSE [ret |-> FALSE, cache |-> Record(cache, key, t)]

(***************************************************************************)
(* Lines.  A line is a record of the text fields it renders; `compact`     *)
(* says which of the two layouts is used.                                  *)
(***************************************************************************)
\* Variant: a missing altitude leaves its place empty.
AircraftLine_blank(label, dist, alt_ft, compact) ==
    [kind |-> "aircraft", compact |-> compact, label |-> label,
     dist |-> Fmt1(dist), val |-> IF alt_ft = "?" THEN "" ELSE alt_ft]

AircraftLine(label, dist, alt_ft, compact) ==
    [kind |-> "aircraft", compact |-> compact, label |-> label,
     dist |-> Fmt1(dist), val |-> alt_ft]

VesselLine(label, dmi, spd, compact) ==
    [kind |-> "vessel", compact |-> compact, label |-> label,
     dist |-> IF IsNone(dmi) THEN "?" ELSE Fmt1(dmi), val |-> spd]

ErrorLine(what, compact) ==
    [kind |-> "error", compact |-> compact,
     text |-> IF compact THEN what \o " fetch error" ELSE what \o " error: e"]

NoTargetsLine == [kind |-> "status", text |-> "No aircraft or vessels in range"]

\* The text of an alert line (lines 399-407, 445-453).  The two marks that
\* open a line are written <plane> and <ship>.
Text(l) ==
    CASE l.kind = "aircraft" /\ l.compact ->
            "<plane> " \o l.label \o " " \o l.dist \o "mi " \o l.val \o "ft"
      [] l.kind = "aircraft" /\ ~l.compact ->
            "<plane> Aircraft overhead\nID: " \o l.label \o "\nAltitude: "
            \o l.val \o " ft\nDistance: " \o l.dist \o " mi"
      [] l.kind = "vessel" /\ l.compact ->
            "<ship> " \o l.label \o " " \o l.dist \o "mi " \o l.val \o "kn"
      [] l.kind = "vessel" /\ ~l.compact ->
            "<ship> Vessel nearby\nID: " \o l.label \o "\nSpeed: " \o l.val
            \o " kn\nDistance: " \o l.dist \o " mi"

\* The result of handling one list element.
Raised(cache) == [res |-> "raise", cache |-> cache, out |-> <<>>, calls |-> <<>>]
Skipped(cache) == [res |-> "skip", cache |-> cache, out |-> <<>>, calls |-> <<>>]

\* The dedupe step and the append that follows it (lines 396-407, 442-453).
Dedupe(key, line, cache, t) ==
    LET s == _suppress(key, cache, t)
        call == [key |-> key, at |-> t, pre |-> cache, ret |-> s.ret,
                 post |-> s.cache]
    IN IF s.ret
       THEN [res |-> "skip", cache |-> s.cache, out |-> <<>>, calls |-> <<call>>]
       ELSE [res |-> "emit", cache |-> s.cache, out |-> <<line>>,
             calls |-> <<call>>]

(***************************************************************************)
(* One iteration of the loop of _aircraft_alert_lines (lines 369-407).     *)
(***************************************************************************)
\* lines 370-382: the position and the distance.  res is "raise" when an
\* exception leaves the loop, "skip" when the record is passed over.
AircraftDistance(a) ==
    IF ~IsDict(a) THEN [res |-> "raise", dist |-> None]
    ELSE
    LET lat0 == Get(a, "lat")
        lon0 == Get(a, "lon")
        useLp == IsNone(lat0) \/ IsNone(lon0)
        lp == Or(Get(a, "lastPosition"), EmptyDict)
    IN
    IF useLp /\ ~IsDict(lp) THEN [res |-> "raise", dist |-> None]
    ELSE
    LET lat == IF useLp /\ IsNone(lat0) THEN Get(lp, "lat") ELSE lat0
        lon == IF useLp /\ IsNone(lon0) THEN Get(lp, "lon") ELSE lon0
    IN
    IF IsNone(lat) \/ IsNone(lon) THEN [res |-> "skip", dist |-> None]
    ELSE IF ~Float(lat).ok \/ ~Float(lon).ok THEN [res |-> "skip", dist |-> None]
    ELSE [res |-> "ok",
          dist |-> _haversine_miles(Num(SSA_LAT), Num(SSA_LON), Float(lat).v,
                                    Float(lon).v)]

\* lines 386-387: the two identifiers; ok is FALSE when .strip() raises.
AircraftIdent(a) ==
    LET cs == Or(Or(Or(Get(a, "flight"), Get(a, "call")), Get(a, "callsign")),
                 Str(""))
        ic == Or(Or(Or(Get(a, "hex"), Get(a, "icao")), Get(a, "icao24")),
                 Str(""))
    IN IF ~IsStr(cs) \/ ~IsStr(ic)
       THEN [ok |-> FALSE, callsign |-> "", icao |-> ""]
       ELSE [ok |-> TRUE, callsign |-> Strip(cs.s), icao |-> Strip(ic.s)]

\* Variant: the radius is compared after the dedupe step.
AircraftRecord_late(a, cache, t, compact) ==
    LET d == AircraftDistance(a)
    IN
    IF d.res = "raise" THEN Raised(cache)
    ELSE IF d.res = "skip" THEN Skipped(cache)
    ELSE
    LET id == AircraftIdent(a)
    IN
    IF ~id.ok THEN Raised(cache)
    ELSE
    LET alt == IF IsNone(Get(a, "alt_baro")) THEN Get(a, "altitude")
               ELSE Get(a, "alt_baro")
        alt_ft == IF IsNone(alt) THEN "?" ELSE PyStr(alt)
        label == IF id.callsign # "" THEN id.callsign
                 ELSE IF id.icao # "" THEN id.icao ELSE "UNKNOWN"
        dedupe_key == "air:" \o label
        r == Dedupe(dedupe_key, AircraftLine(label, d.dist, alt_ft, compact),
                    cache, t)
    IN IF FloatGt(d.dist, Num(SSA_AIRCRAFT_RADIUS_MI))
       THEN [r EXCEPT !.res = "skip", !.out = <<>>]
       ELSE r

AircraftRecord(a, cache, t, compact) ==
    LET d == AircraftDistance(a)
    IN
    IF d.res = "raise" THEN Raised(cache)
    ELSE IF d.res = "skip" THEN Skipped(cache)
    ELSE IF FloatGt(d.dist, Num(SSA_AIRCRAFT_RADIUS_MI)) THEN Skipped(cache)
    ELSE
    LET id == AircraftIdent(a)
    IN
    IF ~id.ok THEN Raised(cache)
    ELSE
    LET alt == IF IsNone(Get(a, "alt_baro")) THEN Get(a, "altitude")
               ELSE Get(a, "alt_baro")
        alt_ft == IF IsNone(alt) THEN "?" ELSE PyStr(alt)
        label == IF id.callsign # "" THEN id.callsign
                 ELSE IF id.icao # "" THEN id.icao ELSE "UNKNOWN"
        dedupe_key == "air:" \o label
    IN Dedupe(dedupe_key, AircraftLine(label, d.dist, alt_ft, compact), cache, t)

(***************************************************************************)
(* One iteration of the loop of _vessel_alert_lines (lines 412-453).       *)
(***************************************************************************)
\* lines 421-435: the distance, None when it cannot be determined.
VesselDistance(v) ==
    LET fd == Float(Get(v, "distance"))
        dmi1 == IF ~IsNone(Get(v, "distance")) /\ fd.ok THEN fd.v ELSE None
        lat == IF ~IsNone(Get(v, "lat")) THEN Get(v, "lat")
               ELSE Get(v, "latitude")
        lon == IF ~IsNone(Get(v, "lon")) THEN Get(v, "lon")
               ELSE Get(v, "longitude")
    IN IF IsNone(dmi1) /\ ~IsNone(lat) /\ ~IsNone(lon)
          /\ Float(lat).ok /\ Float(lon).ok
       THEN _haversine_miles(Num(SSA_LAT), Num(SSA_LON), Float(lat).v,
                             Float(lon).v)
       ELSE dmi1

\* Variant: a vessel of unknown distance is treated as out of range.
VesselRecord_strict(v, cache, t, compact) ==
    IF ~IsDict(v) THEN Raised(cache)
    ELSE
    LET nm == Or(Or(Or(Or(Get(v, "shipname"), Get(v, "name")), Get(v, "vessel")),
                    Get(v, "callsign")), Str("UNKNOWN"))
    IN
    IF ~IsStr(nm) THEN Raised(cache)
    ELSE
    LET name == Strip(nm.s)
        mmsi == Strip(PyStr(Or(Or(Get(v, "mmsi"), Get(v, "MMSI")), Str(""))))
        speed == IF IsNone(Get(v, "speed")) THEN Get(v, "sog")
                 ELSE Get(v, "speed")
        spd == IF IsNone(speed) THEN "?" ELSE PyStr(speed)
        dmi == VesselDistance(v)
    IN
    IF IsNone(dmi) \/ FloatGt(dmi, Num(SSA_VESSEL_RADIUS_MI)) THEN Skipped(cache)
    ELSE
    LET label == IF name # "UNKNOWN" THEN name
                 ELSE IF mmsi # "" THEN mmsi ELSE "UNKNOWN"
        dedupe_key == "sea:" \o label
    IN Dedupe(dedupe_key, VesselLine(label, dmi, spd, compact), cache, t)

VesselRecord(v, cache, t, compact) ==
    IF ~IsDict(v) THEN Raised(cache)
    ELSE
    LET nm == Or(Or(Or(Or(Get(v, "shipname"), Get(v, "name")), Get(v, "vessel")),
                    Get(v, "callsign")), Str("UNKNOWN"))
    IN
    IF ~IsStr(nm) THEN Raised(cache)
    ELSE
    LET name == Strip(nm.s)
        mmsi == Strip(PyStr(Or(Or(Get(v, "mmsi"), Get(v, "MMSI")), Str(""))))
        speed == IF IsNone(Get(v, "speed")) THEN Get(v, "sog")
                 ELSE Get(v, "speed")
        spd == IF IsNone(speed) THEN "?" ELSE PyStr(speed)
        dmi == VesselDistance(v)
    IN
    IF ~IsNone(dmi) /\ FloatGt(dmi, Num(SSA_VESSEL_RADIUS_MI)) THEN Skipped(cache)
    ELSE
    LET label == IF name # "UNKNOWN" THEN name
                 ELSE IF mmsi # "" THEN mmsi ELSE "UNKNOWN"
        dedupe_key == "sea:" \o label
    IN Dedupe(dedupe_key, VesselLine(label, dmi, spd, compact), cache, t)

(***************************************************************************)
(* The two loops.  The result says whether an exception left the loop,     *)
(* the list returned otherwise, and the cache and the _suppress calls      *)
(* made until then, each with the position of the element it was made for. *)
(***************************************************************************)
At(calls, i) == [j \in 1..Len(calls) |->
                   [idx |-> i, key |-> calls[j].key, at |-> calls[j].at,
                    pre |-> calls[j].pre, ret |-> calls[j].ret,
                    post |-> calls[j].post]]

RECURSIVE AircraftLoop(_, _, _, _, _)
AircraftLoop(ac_list, i, acc, t, compact) ==
    IF i > Len(ac_list) THEN acc
    ELSE LET r == AircraftRecord(ac_list[i], acc.cache, t, compact)
         IN IF r.res = "raise"
            THEN [acc EXCEPT !.raised = TRUE, !.out = <<>>]
            ELSE AircraftLoop(ac_list, i + 1,
                              [raised |-> FALSE, out |-> acc.out \o r.out,
                               cache |-> r.cache,
                               calls |-> acc.calls \o At(r.calls, i)],
                              t, compact)

\* Variant: the lines are returned last record first.
_aircraft_alert_lines_reversed(ac_list, compact, cache, t) ==
    LET r == AircraftLoop(ac_list, 1,
                          [raised |-> FALSE, out |-> <<>>, cache |-> cache,
                           calls |-> <<>>],
                          t, compact)
    IN [r EXCEPT !.out = [n \in 1..Len(r.out) |-> r.out[Len(r.out) + 1 - n]]]

_aircraft_alert_lines(ac_list, compact, cache, t) ==
    AircraftLoop(ac_list, 1,
                 [raised |-> FALSE, out |-> <<>>, cache |-> cache, calls |-> <<>>],
                 t, compact)

RECURSIVE VesselLoop(_, _, _, _, _)
VesselLoop(v_list, i, acc, t, compact) ==
    IF i > Len(v_list) THEN acc
    ELSE LET r == VesselRecord(v_list[i], acc.cache, t, compact)
         IN IF r.res = "raise"
            THEN [acc EXCEPT !.raised = TRUE, !.out = <<>>]
            ELSE VesselLoop(v_list, i + 1,
                            [raised |-> FALSE, out |-> acc.out \o r.out,
                             cache |-> r.cache,
                               calls |-> acc.calls \o At(r.calls, i)],
                            t, compact)

_vessel_alert_lines(v_list, compact, cache, t) ==
    VesselLoop(v_list, 1,
               [raised |-> FALSE, out |-> <<>>, cache |-> cache, calls |-> <<>>],
               t, compact)

(***************************************************************************)
(* What a provider can return: the elements of the lists of the model.     *)
(***************************************************************************)
AcNear == Dict([lat |-> Num(69), lon |-> Num(0), flight |-> Str("UAL123"),
                alt_baro |-> Num(9500)])
AcEdge == Dict([lat |-> Num(1000), lon |-> Num(0), callsign |-> Str("UAL123  ")])
AcFar == Dict([lat |-> Num(1001), lon |-> Num(0), flight |-> Str("UAL123")])
AcNoPos == Dict([lat |-> Num(69), flight |-> Str("UAL123")])
AcNaN == Dict([lat |-> NaN, lon |-> Num(0), hex |-> Str("abc123")])
AcIcao == Dict([lastPosition |-> Dict([lat |-> Num(69), lon |-> Num(0)]),
                hex |-> Str("abc123"), altitude |-> Num(300)])
AcBadId == Dict([lat |-> Num(69), lon |-> Num(0), flight |-> Num(7)])
AcBadPos == Dict([lat |-> Str("x"), lon |-> Num(0), flight |-> Str("UAL123")])
NotARecord == Num(7)

AircraftSamples == {AcNear, AcEdge, AcFar, AcNoPos, AcNaN, AcIcao, AcBadId,
                    AcBadPos}

VNear == Dict([shipname |-> Str("EVER GIVEN"), distance |-> Num(250),
               speed |-> Num(12)])
VFar == Dict([name |-> Str("EVER GIVEN"), distance |-> Str("x"),
              latitude |-> Num(301), longitude |-> Num(0), sog |-> Num(7)])
VBlind == Dict([mmsi |-> Num(232000000)])
VSpace == Dict([shipname |-> Str(" "), name |-> Str("EVER GIVEN"),
                mmsi |-> Num(232000000)])

VesselSamples == {VNear, VFar, VBlind, VSpace, NotARecord}

Lists(S) == UNION {[1..n -> S] : n \in 0..MaxLen}

\* A fetch raises or returns a list.
FetchRaise == [t |-> "raise"]
List(l) == [t |-> "list", l |-> l]
Unbound == [t |-> "unbound"]
Forgotten == [t |-> "forgotten"]

FetchResults(S) == {FetchRaise} \cup {List(l) : l \in Lists(S)}

\* The modes of the model ("off" is no mode the program knows), and the
\* <<configuration, mode>> pairs a process of the model runs with.
Modes == {"aircraft-local", "aircraft-cloud", "vessels-local", "vessels-cloud",
          "sky_and_sea", "demo", "off"}
Setups ==
    (Configs \X {"aircraft-local", "vessels-local", "vessels-cloud", "demo", "off"})
    \cup ({Default, <<1, 300, TRUE>>} \X {"aircraft-cloud"})
    \cup ({Default} \X {"sky_and_sea", "sky", "default", "vessels_cloud"})

\* lines 543-551 of main: the names of SSA_MODE that main replaces by a mode
\* of _single_shot; every other name is passed on as it is.
ResolvedMode(m) ==
    CASE m \in {"sky+sea", "sky-sea", "local", "default"} -> "sky_and_sea"
      [] m \in {"aircraft_only", "sky"} -> "aircraft-local"
      [] m \in {"vessels_only", "sea"} -> "vessels-local"
      [] m \in {"aircraft_cloud", "sky_cloud"} -> "aircraft-cloud"
      [] OTHER -> m

(***************************************************************************)
(* _demo                                                                   *)
(***************************************************************************)
_demo(compact) ==
    IF compact
    THEN << [kind |-> "status", text |-> "SSA demo OK"],
            [kind |-> "aircraft", compact |-> TRUE, label |-> "DEMO123",
             dist |-> "6.1", val |-> "9200"],
            [kind |-> "vessel", compact |-> TRUE, label |-> "DEMO VESSEL",
             dist |-> "2.3", val |-> "12.4"] >>
    ELSE << [kind |-> "status", text |-> "Sky and Sea Alert demo started"],
            [kind |-> "aircraft", compact |-> FALSE, label |-> "DEMO123",
             dist |-> "6.1", val |-> "9200"],
            [kind |-> "vessel", compact |-> FALSE, label |-> "DEMO VESSEL",
             dist |-> "2.3", val |-> "12.4"],
            [kind |-> "status", text |-> "Demo complete"] >>

(***************************************************************************)
(* The state after import, when main has resolved its mode.                *)
(***************************************************************************)
EmptyCache == [k \in {} |-> 0]
NoPrev == [lines |-> <<>>, at |-> 0]

Init ==
    /\ \E c \in Setups :
          /\ SSA_SUPPRESS_MINUTES = c[1][1]
          /\ SSA_VESSEL_RADIUS_MI = c[1][2]
          /\ mesh_compact = c[1][3]
          /\ mode = ResolvedMode(c[2])
    /\ now = 0
    /\ _last_alert_ts = EmptyCache
    /\ pc = "idle"
    /\ lines = <<>>
    /\ had_error = FALSE
    /\ ac = Unbound
    /\ ships = Unbound
    /\ sup_log = <<>>
    /\ cache0 = EmptyCache
    /\ last_emit = EmptyCache
    /\ prev = NoPrev
    /\ shots = 0
    /\ fetch_log = <<>>
    /\ MM_MESSAGE = None
    /\ stdout = <<>>

config == <<SSA_SUPPRESS_MINUTES, SSA_VESSEL_RADIUS_MI, mode, mesh_compact>>
history == <<cache0, last_emit, prev, shots>>
host == <<MM_MESSAGE, stdout>>

(***************************************************************************)
(* _single_shot, lines 497-503: entry, the demo shortcut, the locals.      *)
(***************************************************************************)
\* Variant: the demo lines pass the dedupe step like any other alert.
Begin_deduped ==
    /\ pc = "idle"
    /\ shots < MaxShots
    /\ IF mode = "demo"
       THEN /\ lines' = _demo(mesh_compact)
            /\ pc' = "done"
            /\ _last_alert_ts' =
                  Record(Record(_last_alert_ts, "air:DEMO123", now),
                         "sea:DEMO VESSEL", now)
       ELSE /\ lines' = <<>>
            /\ pc' = "aircraft"
            /\ UNCHANGED _last_alert_ts
    /\ had_error' = FALSE
    /\ ac' = Unbound
    /\ ships' = Unbound
    /\ sup_log' = <<>>
    /\ cache0' = _last_alert_ts
    /\ shots' = shots + 1
    /\ fetch_log' = <<>>
    /\ UNCHANGED <<config, now, last_emit, prev, host>>

Begin ==
    /\ pc = "idle"
    /\ shots < MaxShots
    /\ IF mode = "demo"
       THEN /\ lines' = _demo(mesh_compact)
            /\ pc' = "done"
       ELSE /\ lines' = <<>>
            /\ pc' = "aircraft"
    /\ had_error' = FALSE
    /\ ac' = Unbound
    /\ ships' = Unbound
    /\ sup_log' = <<>>
    /\ cache0' = _last_alert_ts
    /\ shots' = shots + 1
    /\ fetch_log' = <<>>
    /\ UNCHANGED <<config, now, _last_alert_ts, last_emit, prev, host>>

\* The body of a try block: the fetch, then the record loop (lines 506-511).
\* Gives the locals and the cache as the block leaves them.
TryBlock(what, fetched, r) ==
    IF fetched.t = "raise" \/ r.raised
    THEN [lines |-> Append(lines, ErrorLine(what, mesh_compact)),
          had_error |-> TRUE,
          cache |-> IF fetched.t = "raise" THEN _last_alert_ts ELSE r.cache,
          calls |-> IF fetched.t = "raise" THEN <<>> ELSE r.calls]
    ELSE [lines |-> lines \o r.out,
          had_error |-> had_error,
          cache |-> r.cache,
          calls |-> r.calls]

NoLoop == [raised |-> FALSE, out |-> <<>>, cache |-> EmptyCache, calls |-> <<>>]

\* Variant: a fetch that raised is attempted once more.
AircraftBlock_retry(what, fetched) ==
    \E b \in {TryBlock(what, fetched,
                       IF fetched.t = "list"
                       THEN _aircraft_alert_lines(fetched.l, mesh_compact,
                                                  _last_alert_ts, now)
                       ELSE NoLoop)} :
       /\ lines' = b.lines
       /\ had_error' = b.had_error
       /\ _last_alert_ts' = b.cache
       /\ sup_log' = b.calls
       /\ ac' = fetched
       /\ fetch_log' = IF fetched.t = "raise"
                       THEN Append(Append(fetch_log, what), what)
                       ELSE Append(fetch_log, what)
       /\ UNCHANGED ships

\* An aircraft block, lines 505-511 or 513-519.
AircraftBlock(what, fetched) ==
    \E b \in {TryBlock(what, fetched,
                       IF fetched.t = "list"
                       THEN _aircraft_alert_lines(fetched.l, mesh_compact,
                                                  _last_alert_ts, now)
                       ELSE NoLoop)} :
       /\ lines' = b.lines
       /\ had_error' = b.had_error
       /\ _last_alert_ts' = b.cache
       /\ sup_log' = b.calls
       /\ ac' = fetched
       /\ fetch_log' = Append(fetch_log, what)
       /\ UNCHANGED ships

\* Variant: the sentinel is added whenever no category failed.
Finish_eager(b) ==
    /\ had_error' = b.had_error
    /\ lines' = IF ~b.had_error
                 THEN Append(b.lines, NoTargetsLine)
                 ELSE b.lines
    /\ pc' = "done"

\* lines 537-540: the closing sentinel and the return.
Finish(b) ==
    /\ had_error' = b.had_error
    /\ lines' = IF b.lines = <<>> /\ ~b.had_error
                 THEN Append(b.lines, NoTargetsLine)
                 ELSE b.lines
    /\ pc' = "done"

\* Variant: the vessel lines are put in front of the lines already there.
VesselBlock_first(what, fetched) ==
    \E b \in {TryBlock(what, fetched,
                       IF fetched.t = "list"
                       THEN _vessel_alert_lines(fetched.l, mesh_compact,
                                                _last_alert_ts, now)
                       ELSE NoLoop)} :
       /\ Finish([b EXCEPT !.lines = SubSeq(b.lines, Len(lines) + 1, Len(b.lines))
                                      \o lines])
       /\ _last_alert_ts' = b.cache
       /\ sup_log' = b.calls
       /\ ships' = fetched
       /\ ac' = IF ac.t = "list" THEN Forgotten ELSE ac
       /\ fetch_log' = Append(fetch_log, what)

\* A vessel block, lines 521-527 or 529-535, and the rest of the function.
\* ac and the _suppress calls of the aircraft loop are not read again once
\* the vessel fetch is made: the model forgets the list and the calls.
VesselBlock(what, fetched) ==
    \E b \in {TryBlock(what, fetched,
                       IF fetched.t = "list"
                       THEN _vessel_alert_lines(fetched.l, mesh_compact,
                                                _last_alert_ts, now)
                       ELSE NoLoop)} :
       /\ Finish(b)
       /\ _last_alert_ts' = b.cache
       /\ sup_log' = b.calls
       /\ ships' = fetched
       /\ ac' = IF ac.t = "list" THEN Forgotten ELSE ac
       /\ fetch_log' = Append(fetch_log, what)

AircraftLocalModes == {"aircraft-local", "aircraft", "sky_and_sea", "sky_and_sea_local"}
AircraftCloudModes == {"aircraft-cloud"}
VesselsLocalModes == {"vessels-local", "vessels", "sky_and_sea", "sky_and_sea_local"}
VesselsCloudModes == {"vessels-cloud"}

\* lines 505-511
AircraftLocal ==
    /\ pc = "aircraft"
    /\ mode \in AircraftLocalModes
    /\ pc' = "vessels"
    /\ \E f \in FetchResults(AircraftSamples) : AircraftBlock("Aircraft local", f)
    /\ UNCHANGED <<config, now, history, host>>

\* lines 513-519
AircraftCloud ==
    /\ pc = "aircraft"
    /\ mode \in AircraftCloudModes
    /\ pc' = "vessels"
    /\ \E f \in FetchResults(AircraftSamples) : AircraftBlock("Aircraft cloud", f)
    /\ UNCHANGED <<config, now, history, host>>

\* Variant: a mode that asks for no aircraft fetch gets the local one.
AircraftNone_default ==
    /\ pc = "aircraft"
    /\ mode \notin AircraftLocalModes \cup AircraftCloudModes
    /\ pc' = "vessels"
    /\ \E f \in FetchResults(AircraftSamples) : AircraftBlock("Aircraft local", f)
    /\ UNCHANGED <<config, now, history, host>>

\* Neither condition of lines 505 and 513 holds.
AircraftNone ==
    /\ pc = "aircraft"
    /\ mode \notin AircraftLocalModes \cup AircraftCloudModes
    /\ pc' = "vessels"
    /\ UNCHANGED <<config, now, history, _last_alert_ts, lines, had_error, ac,
                   ships, sup_log, fetch_log, host>>

\* lines 521-527, then 537-540
VesselsLocal ==
    /\ pc = "vessels"
    /\ mode \in VesselsLocalModes
    /\ \E f \in FetchResults(VesselSamples) : VesselBlock("Vessel local", f)
    /\ UNCHANGED <<config, now, history, host>>

\* lines 529-535, then 537-540
VesselsCloud ==
    /\ pc = "vessels"
    /\ mode \in VesselsCloudModes
    /\ \E f \in FetchResults(VesselSamples) : VesselBlock("Vessel cloud", f)
    /\ UNCHANGED <<config, now, history, host>>

\* Neither condition of lines 521 and 529 holds; then lines 537-540.
VesselsNone ==
    /\ pc = "vessels"
    /\ mode \notin VesselsLocalModes \cup VesselsCloudModes
    /\ Finish([lines |-> lines, had_error |-> had_error])
    /\ UNCHANGED <<config, now, history, _last_alert_ts, ac, ships, sup_log,
                   fetch_log, host>>

IsAlert(l) == l.kind \in {"aircraft", "vessel"}
KeyOf(l) == (IF l.kind = "aircraft" THEN "air:" ELSE "sea:") \o l.label

\* The positions in ls of the alert lines of key k.
AlertsOf(ls, k) == {i \in 1..Len(ls) : IsAlert(ls[i]) /\ KeyOf(ls[i]) = k}
AlertKeys(ls) == {KeyOf(ls[i]) : i \in {j \in 1..Len(ls) : IsAlert(ls[j])}}

(***************************************************************************)
(* The caller has the returned lines (lines 601-611) and sleeps (line      *)
(* 613); the locals of the invocation are gone.  The clock is read at the  *)
(* same second throughout one invocation and moves on between two.  The    *)
(* history variables keep, for each key, the time of its last returned     *)
(* alert.                                                                  *)
(***************************************************************************)
\* Variant: the loop ends with a cycle that reported an error.
Resume_fragile ==
    /\ pc = "done"
    /\ ~had_error
    /\ pc' = "idle"
    /\ \E d \in SleepSteps : now' = now + d
    /\ last_emit' =
          LET ks == IF mode = "demo" THEN {} ELSE AlertKeys(lines)
          IN [k \in DOMAIN last_emit \cup ks |->
                IF k \in ks THEN now ELSE last_emit[k]]
    /\ prev' = [lines |-> lines, at |-> now]
    /\ lines' = <<>>
    /\ had_error' = FALSE
    /\ ac' = Unbound
    /\ ships' = Unbound
    /\ sup_log' = <<>>
    /\ fetch_log' = <<>>
    /\ UNCHANGED <<config, _last_alert_ts, cache0, shots, host>>

Resume ==
    /\ pc = "done"
    /\ pc' = "idle"
    /\ \E d \in SleepSteps : now' = now + d
    /\ last_emit' =
          LET ks == IF mode = "demo" THEN {} ELSE AlertKeys(lines)
          IN [k \in DOMAIN last_emit \cup ks |->
                IF k \in ks THEN now ELSE last_emit[k]]
    /\ prev' = [lines |-> lines, at |-> now]
    /\ lines' = <<>>
    /\ had_error' = FALSE
    /\ ac' = Unbound
    /\ ships' = Unbound
    /\ sup_log' = <<>>
    /\ fetch_log' = <<>>
    /\ UNCHANGED <<config, _last_alert_ts, cache0, shots, host>>

Next ==
    \/ Begin
    \/ AircraftLocal
    \/ AircraftCloud
    \/ AircraftNone
    \/ VesselsLocal
    \/ VesselsCloud
    \/ VesselsNone
    \/ Resume

Spec == Init /\ [][Next]_vars

\* The polling loop of main (lines 599-613), which a process not under
\* MeshMonitor and not in demo mode reaches, with mesh_compact=False.  The
\* loop runs on: when _single_shot has returned the lines are printed and
\* the sleep ends, and when the sleep has ended the next call is made.
InitLoop == Init /\ mode # "demo" /\ ~mesh_compact

SpecLoop == InitLoop /\ [][Next]_vars /\ WF_vars(Begin) /\ WF_vars(Resume)

(***************************************************************************)
(* _single_shot as a function of its mode argument (line 497): a caller    *)
(* other than the poll loop may pass, from one invocation to the next, a   *)
(* mode that is not the configured one, as lines 562-567 do.  The modes    *)
(* passed here are those that fetch nothing.                               *)
(***************************************************************************)
PassedModes == {"demo", "off"}

CallWith ==
    /\ pc = "idle"
    /\ shots < MaxShots
    /\ \E m \in PassedModes \ {mode} : mode' = m
    /\ UNCHANGED <<SSA_SUPPRESS_MINUTES, SSA_VESSEL_RADIUS_MI, mesh_compact, now,
                   pc, _last_alert_ts, lines, had_error, ac, ships, sup_log,
                   fetch_log, history, host>>

NextCalls == Next \/ CallWith

SpecCalls == Init /\ [][NextCalls]_vars

(***************************************************************************)
(* main under MeshMonitor (lines 553-573): MESSAGE is set, main answers    *)
(* the one message with one JSON reply and returns.                        *)
(***************************************************************************)
Messages == {"", "hello", "!ssa", "!ssa help", "/ssa ?", "!ssa demo",
             "!SSA Sky", "/ssa sea", "!ssa status"}

\* _parse_command on the messages of the model: <<cmd, arg>>.
_parse_command(message) ==
    CASE message = "!ssa" -> <<"ssa", "">>
      [] message = "!ssa help" -> <<"ssa", "help">>
      [] message = "/ssa ?" -> <<"ssa", "?">>
      [] message = "!ssa demo" -> <<"ssa", "demo">>
      [] message = "!SSA Sky" -> <<"ssa", "sky">>
      [] message = "/ssa sea" -> <<"ssa", "sea">>
      [] message = "!ssa status" -> <<"ssa", "status">>
      [] OTHER -> <<"", "">>

_help_text(compact) ==
    IF compact THEN "Usage: !ssa [sky|sea|demo|help]" ELSE "Sky and Sea Alert"

\* _mm_out: the printed line.  response is the text before json.dumps and
\* the clamp to 200 characters: a string, or the lines that are joined.
_mm_out(response_text) == [kind |-> "json", response |-> response_text]

InitMM ==
    /\ \E c \in Setups :
          /\ SSA_SUPPRESS_MINUTES = c[1][1]
          /\ SSA_VESSEL_RADIUS_MI = c[1][2]
          /\ mode = ResolvedMode(c[2])
    /\ \E m \in Messages : MM_MESSAGE = Str(m)
    /\ mesh_compact = TRUE
    /\ now = 0
    /\ _last_alert_ts = EmptyCache
    /\ pc = "mm"
    /\ lines = <<>>
    /\ had_error = FALSE
    /\ ac = Unbound
    /\ ships = Unbound
    /\ sup_log = <<>>
    /\ cache0 = EmptyCache
    /\ last_emit = EmptyCache
    /\ prev = NoPrev
    /\ shots = 0
    /\ fetch_log = <<>>
    /\ stdout = <<>>

\* Variant: a message that is no ssa command is left unanswered.
MMDispatch_silent ==
    /\ pc = "mm"
    /\ \E p \in {_parse_command(MM_MESSAGE.s)} :
          IF p[1] # "ssa"
          THEN /\ pc' = "exit"
               /\ UNCHANGED <<stdout, mode>>
          ELSE IF p[2] \in {"help", "h", "?"}
          THEN /\ stdout' = Append(stdout, _mm_out(_help_text(mesh_compact)))
               /\ pc' = "exit"
               /\ UNCHANGED mode
          ELSE /\ mode' = CASE p[2] = "demo" -> "demo"
                             [] p[2] = "sky" -> "aircraft-local"
                             [] p[2] = "sea" -> "vessels-local"
                             [] OTHER -> mode
               /\ pc' = "idle"
               /\ UNCHANGED stdout
    /\ UNCHANGED <<SSA_SUPPRESS_MINUTES, SSA_VESSEL_RADIUS_MI, mesh_compact, now,
                   _last_alert_ts, lines, had_error, ac, ships, sup_log,
                   fetch_log, history, MM_MESSAGE>>

\* lines 554-569: the command, and the mode passed to _single_shot.
MMDispatch ==
    /\ pc = "mm"
    /\ \E p \in {_parse_command(MM_MESSAGE.s)} :
          IF p[1] # "ssa"
          THEN /\ stdout' = Append(stdout, _mm_out(""))
               /\ pc' = "exit"
               /\ UNCHANGED mode
          ELSE IF p[2] \in {"help", "h", "?"}
          THEN /\ stdout' = Append(stdout, _mm_out(_help_text(mesh_compact)))
               /\ pc' = "exit"
               /\ UNCHANGED mode
          ELSE /\ mode' = CASE p[2] = "demo" -> "demo"
                             [] p[2] = "sky" -> "aircraft-local"
                             [] p[2] = "sea" -> "vessels-local"
                             [] OTHER -> mode
               /\ pc' = "idle"
               /\ UNCHANGED stdout
    /\ UNCHANGED <<SSA_SUPPRESS_MINUTES, SSA_VESSEL_RADIUS_MI, mesh_compact, now,
                   _last_alert_ts, lines, had_error, ac, ships, sup_log,
                   fetch_log, history, MM_MESSAGE>>

\* lines 571-573: the reply and the return.
MMReply ==
    /\ pc = "done"
    /\ stdout' = Append(stdout, _mm_out(IF lines # <<>> THEN lines ELSE "No data"))
    /\ pc' = "exit"
    /\ UNCHANGED <<config, now, _last_alert_ts, lines, had_error, ac, ships,
                   sup_log, fetch_log, history, MM_MESSAGE>>

NextMM ==
    \/ MMDispatch
    \/ Begin
    \/ AircraftLocal
    \/ AircraftCloud
    \/ AircraftNone
    \/ VesselsLocal
    \/ VesselsCloud
    \/ VesselsNone
    \/ MMReply

\* main runs on until it returns: a fetch returns or raises (its timeout).
SpecMM == InitMM /\ [][NextMM]_vars /\ WF_vars(NextMM)

(***************************************************************************)
(* The claims.                                                             *)
(***************************************************************************)
Calls == {sup_log[i] : i \in 1..Len(sup_log)}

\* The entry of key is still inside the window at time t.
Fresh(cache, key, t) == key \in DOMAIN cache /\ t - cache[key] < window

\* post is pre with the entry of key set to t and nothing else changed.
Recorded(pre, post, key, t) ==
    /\ DOMAIN post = DOMAIN pre \cup {key}
    /\ post[key] = t
    /\ \A k \in DOMAIN pre : k # key => post[k] = pre[k]

\* C1: with a window > 0, a _suppress call for a key whose entry is younger
\* than the window returns true and leaves the whole cache as it was; the
\* stored time of the key is still the older one after the loop.
C1_SuppressedHitKeepsTimestamp ==
    \A c \in Calls :
        (window > 0 /\ Fresh(c.pre, c.key, c.at))
        => /\ c.ret
           /\ c.post = c.pre
           /\ _last_alert_ts[c.key] = c.pre[c.key]

\* A suppressed call made later than the time the cache holds for its key.
C1_Witness ==
    \E c \in Calls :
        /\ window > 0 /\ c.ret
        /\ c.at = c.pre[c.key] + 30
        /\ _last_alert_ts[c.key] = c.at - 30

\* C2: with a window > 0, _suppress returns false exactly when the key is
\* absent or its entry is at least the window old; it then sets the entry of
\* that key to now and changes no other entry.
C2_NotSuppressedIffAbsentOrExpired ==
    \A c \in Calls :
        window > 0
        => /\ ~c.ret <=> (c.key \notin DOMAIN c.pre \/ c.at - c.pre[c.key] >= window)
           /\ ~c.ret => Recorded(c.pre, c.post, c.key, c.at)

\* A call at the boundary now - last = window, which is not suppressed, made
\* while the cache holds another key.
C2_Witness ==
    \E c \in Calls :
        /\ window > 0 /\ ~c.ret
        /\ c.key \in DOMAIN c.pre
        /\ c.at - c.pre[c.key] = window
        /\ \E k \in DOMAIN c.pre : k # c.key

\* C3: with SSA_SUPPRESS_MINUTES zero or negative no call of _suppress
\* returns true, and each call records the current time for its key.
C3_DisabledWindowNeverSuppresses ==
    SSA_SUPPRESS_MINUTES <= 0
    => \A c \in Calls : ~c.ret /\ Recorded(c.pre, c.post, c.key, c.at)

\* With a negative setting, a repeated call for a key recorded half a
\* minute before, and one for a key recorded in the same second.
C3_Witness ==
    /\ SSA_SUPPRESS_MINUTES < 0
    /\ \E c \in Calls : c.key \in DOMAIN c.pre /\ c.at = c.pre[c.key] + 30 /\ ~c.ret
    /\ \E c \in Calls : c.key \in DOMAIN c.pre /\ c.at = c.pre[c.key] /\ ~c.ret

\* The positions of a list, and those of its lines that are error sentinels.
Positions(l) == 1..Len(l)
ErrorsOf(ls) == {i \in Positions(ls) : ls[i].kind = "error"}

AircraftOnly == {"aircraft-local", "aircraft-cloud"}
VesselsOnly == {"vessels-local", "vessels-cloud"}

\* C4: with a window > 0, two alert lines returned for one key are at least
\* the window apart: a returned list holds at most one alert line per key,
\* and a key alerted before is alerted again only when the window has
\* passed since its last alert (the fixed lines of the demo mode aside).
C4_AlertsOfOneKeyAreAWindowApart ==
    (pc = "done" /\ mode # "demo" /\ window > 0)
    => \A k \in AlertKeys(lines) :
          /\ Cardinality(AlertsOf(lines, k)) = 1
          /\ k \in DOMAIN last_emit => now - last_emit[k] >= window

\* A list with two in-range records of one label and differing fields gives
\* one alert, for a key alerted one window earlier.
C4_Witness ==
    /\ pc = "done" /\ window > 0
    /\ ac = List(<<AcNear, AcEdge>>)
    /\ AlertsOf(lines, "air:UAL123") = {1}
    /\ "air:UAL123" \in DOMAIN last_emit
    /\ now - last_emit["air:UAL123"] = window

\* An in-range aircraft record whose callsign is L.
HasInRange(list, L) ==
    \E i \in Positions(list) :
        /\ AircraftDistance(list[i]).res = "ok"
        /\ AircraftDistance(list[i]).dist.t = "num"
        /\ AircraftDistance(list[i]).dist.n <= SSA_AIRCRAFT_RADIUS_MI
        /\ AircraftIdent(list[i]).ok
        /\ AircraftIdent(list[i]).callsign = L

Callsigns == {"UAL123"}

\* C5: of two consecutive aircraft invocations inside one window that both
\* fetch an in-range record of callsign L, the first (L not recorded within
\* the window before it) returns exactly one alert line for L, the second
\* returns no alert line for L and no error sentinel.
C5_SecondSightingIsAbsent ==
    \A L \in Callsigns :
        (/\ pc = "done" /\ mode \in AircraftOnly /\ window > 0
         /\ ac.t = "list" /\ HasInRange(ac.l, L))
        => /\ ~Fresh(cache0, "air:" \o L, now)
              => Cardinality(AlertsOf(lines, "air:" \o L)) = 1
           /\ (AlertsOf(prev.lines, "air:" \o L) # {} /\ now - prev.at < window)
              => (AlertsOf(lines, "air:" \o L) = {} /\ ErrorsOf(lines) = {})

\* The records of a list that a loop can handle without an exception.
UsableAircraft(list) ==
    SelectSeq(list, LAMBDA a : AircraftRecord(a, EmptyCache, 0, FALSE).res # "raise")
UsableVessels(list) ==
    SelectSeq(list, LAMBDA v : VesselRecord(v, EmptyCache, 0, FALSE).res # "raise")

\* What _single_shot returns for the lines of its record loops.
Returned(out) == IF out = <<>> THEN <<NoTargetsLine>> ELSE out

\* C6: in the combined mode, when the aircraft fetch raises and the vessel
\* fetch succeeds, the result is one aircraft error sentinel followed by
\* the alert line of every qualifying vessel; when the vessel fetch raises,
\* the aircraft lines stay and exactly one vessel error sentinel is added.
C6_FetchFailureIsIsolated ==
    /\ [](  (pc = "done" /\ mode = "sky_and_sea" /\ ac.t = "raise"
             /\ ships.t = "list")
          => lines = <<ErrorLine("Aircraft local", mesh_compact)>>
                     \o _vessel_alert_lines(UsableVessels(ships.l), mesh_compact,
                                            cache0, now).out )
    /\ [][ (pc = "vessels" /\ mode = "sky_and_sea" /\ ships'.t = "raise")
           => lines' = Append(lines, ErrorLine("Vessel local", mesh_compact)) ]_vars

\* C7: a record that cannot be handled is passed over: in a one-category
\* mode the result is what the loop gives for the other records of the
\* list, and holds no error sentinel.
C7_UnusableRecordIsSkipped ==
    /\ (pc = "done" /\ mode \in AircraftOnly /\ ac.t = "list")
       => lines = Returned(_aircraft_alert_lines(UsableAircraft(ac.l),
                                                 mesh_compact, cache0, now).out)
    /\ (pc = "done" /\ mode \in VesselsOnly /\ ships.t = "list")
       => lines = Returned(_vessel_alert_lines(UsableVessels(ships.l),
                                               mesh_compact, cache0, now).out)

\* An aircraft record with a computable distance inside the radius.
InAircraftRadius(a) ==
    /\ AircraftDistance(a).res = "ok"
    /\ AircraftDistance(a).dist.t = "num"
    /\ AircraftDistance(a).dist.n <= SSA_AIRCRAFT_RADIUS_MI

\* C8: after the aircraft loop, every record that reached the dedupe step
\* (and so every aircraft alert line) has a computable distance that is at
\* most SSA_AIRCRAFT_RADIUS_MI, and when the loop returned every such record
\* reached that step; a record beyond the radius or without coordinates
\* gives no line.
C8_AircraftAlertsAreInsideRadius ==
    (pc = "vessels" /\ ac.t = "list")
    => /\ \A c \in Calls : InAircraftRadius(ac.l[c.idx])
       /\ ~had_error
          => /\ \A i \in Positions(ac.l) :
                   InAircraftRadius(ac.l[i]) => \E c \in Calls : c.idx = i
             /\ Len(lines) = Cardinality({c \in Calls : ~c.ret})

\* A vessel record of unknown distance, and one known to be out of range.
Blind(v) == IsDict(v) /\ IsNone(VesselDistance(v))
KnownFar(v) ==
    /\ IsDict(v) /\ VesselDistance(v).t = "num"
    /\ VesselDistance(v).n > SSA_VESSEL_RADIUS_MI

\* The vessel loop gets as far as position i of the list.
VesselLoopReaches(list, i) ==
    \A j \in 1..(i - 1) : VesselRecord(list[j], EmptyCache, 0, FALSE).res # "raise"

\* C9: in the vessel loop a record of unknown distance that the loop gets
\* to always reaches the dedupe step, whatever SSA_VESSEL_RADIUS_MI is, and
\* its line with "?" for the distance is returned unless it is suppressed;
\* a record whose known distance is beyond the radius never reaches that
\* step and gives no line.
C9_VesselRadiusFilterOnlyOnKnownDistance ==
    (pc = "done" /\ mode \in VesselsOnly /\ ships.t = "list")
    => \A i \in Positions(ships.l) :
          /\ (Blind(ships.l[i]) /\ VesselLoopReaches(ships.l, i))
             => \E c \in Calls :
                   /\ c.idx = i
                   /\ (~c.ret /\ ~had_error)
                      => \E n \in AlertsOf(lines, c.key) : lines[n].dist = "?"
          /\ KnownFar(ships.l[i])
             => /\ ~\E c \in Calls : c.idx = i
                /\ ~had_error
                   => Cardinality({n \in Positions(lines) : IsAlert(lines[n])})
                      = Cardinality({c \in Calls : ~c.ret})

\* With a radius of zero, a list of a record known to be out of range and a
\* record of unknown distance gives the alert of the second alone.
C9_Witness ==
    /\ pc = "done" /\ mode \in VesselsOnly
    /\ SSA_VESSEL_RADIUS_MI = 0
    /\ ships = List(<<VNear, VBlind>>)
    /\ Len(lines) = 1 /\ lines[1].kind = "vessel"
    /\ lines[1].label = "232000000" /\ lines[1].dist = "?"

\* C10: the "No aircraft or vessels in range" sentinel is returned exactly
\* when no line was produced and no category failed; it is then the only
\* line, and never stands next to an alert line or an error sentinel.
C10_NoTargetsSentinel ==
    pc = "done"
    => LET produced == SelectSeq(lines, LAMBDA l : l # NoTargetsLine)
           sentinel == \E i \in Positions(lines) : lines[i] = NoTargetsLine
       IN /\ sentinel <=> (produced = <<>> /\ ~had_error)
          /\ sentinel => lines = <<NoTargetsLine>>
          /\ had_error <=> ErrorsOf(lines) # {}

\* The sentinel alone after a fetch that returned two records, neither of
\* which gave a line, in an invocation that follows one with an alert.
C10_Witness ==
    /\ pc = "done"
    /\ lines = <<NoTargetsLine>> /\ ~had_error
    /\ ac = List(<<AcFar, AcNoPos>>)
    /\ AlertKeys(prev.lines) # {}

\* C11: a demo invocation returns the list _demo gives for the rendering
\* flag, which nothing else decides, attempts no fetch, reports no error,
\* and leaves the suppression cache as it found it.
C11_DemoIsFixedAndTouchesNothing ==
    (pc = "done" /\ mode = "demo")
    => /\ lines = _demo(mesh_compact)
       /\ Len(lines) = IF mesh_compact THEN 3 ELSE 4
       /\ fetch_log = <<>> /\ ac = Unbound /\ ships = Unbound
       /\ ~had_error
       /\ _last_alert_ts = cache0
       /\ (shots = 2 /\ prev.lines # <<>> /\ prev.lines[1].kind = "status"
           /\ prev.lines[1] # NoTargetsLine)
          => prev.lines = lines

\* A demo invocation made with entries in the cache, after an invocation
\* that returned an alert, under a configuration with suppression disabled.
C11_Witness ==
    /\ pc = "done" /\ mode = "demo"
    /\ SSA_SUPPRESS_MINUTES = -1
    /\ DOMAIN _last_alert_ts # {}
    /\ AlertKeys(prev.lines) # {}
    /\ lines = _demo(FALSE)

\* The _suppress calls of the last record loop that returned false, in the
\* order they were made.
Emitted == SelectSeq(sup_log, LAMBDA c : ~c.ret)

\* The line a record gives when nothing suppresses it.
AircraftLineOf(a) == AircraftRecord(a, EmptyCache, now, mesh_compact).out
VesselLineOf(v) == VesselRecord(v, EmptyCache, now, mesh_compact).out

\* The alert lines of the result so far.
AlertLines == SelectSeq(lines, IsAlert)

\* C12: the alert lines a record loop returns are the lines of the records
\* that were not dropped, one line each, in the order of those records in
\* the input list: line n is the line of the n-th such record.
C12_OutputFollowsInputOrder ==
    /\ (pc = "vessels" /\ ac.t = "list" /\ ~had_error)
       => /\ lines = AlertLines
          /\ Len(lines) = Len(Emitted)
          /\ \A n \in Positions(lines) :
                /\ <<lines[n]>> = AircraftLineOf(ac.l[Emitted[n].idx])
                /\ \A m \in Positions(lines) :
                      n < m => Emitted[n].idx < Emitted[m].idx
    /\ (pc = "done" /\ mode \in VesselsOnly /\ ships.t = "list" /\ ~had_error)
       => /\ Len(AlertLines) = Len(Emitted)
          /\ \A n \in Positions(AlertLines) :
                /\ <<AlertLines[n]>> = VesselLineOf(ships.l[Emitted[n].idx])
                /\ \A m \in Positions(AlertLines) :
                      n < m => Emitted[n].idx < Emitted[m].idx

\* The farther aircraft comes first in the list and first in the result.
C12_Witness ==
    /\ pc = "vessels" /\ ~had_error
    /\ ac = List(<<AcEdge, AcIcao>>)
    /\ Len(lines) = 2
    /\ lines[1].label = "UAL123" /\ lines[1].dist = "10.0"
    /\ lines[2].label = "abc123" /\ lines[2].dist = "0.7"

\* C13: under MeshMonitor main prints nothing until it returns, and it
\* does return, having printed exactly one line, a JSON reply; it makes at
\* most one _single_shot invocation and never sleeps.
C13_OneReplyUnderMeshMonitor ==
    /\ [](pc # "exit" => stdout = <<>>)
    /\ [](pc = "exit" => (Len(stdout) = 1 /\ stdout[1].kind = "json"))
    /\ [](shots <= 1 /\ now = 0)
    /\ <>[](pc = "exit")

\* The reply to "!ssa" in the combined mode after a failed aircraft fetch
\* and a vessel alert.
C13_Witness ==
    /\ pc = "exit" /\ MM_MESSAGE = Str("!ssa") /\ mode = "sky_and_sea"
    /\ ac = FetchRaise
    /\ stdout = <<_mm_out(<<ErrorLine("Aircraft local", TRUE),
                           VesselLine("EVER GIVEN", Num(250), "12", TRUE)>>)>>

\* A record without the numeric field.
NoAltitude(a) == IsNone(Get(a, "alt_baro")) /\ IsNone(Get(a, "altitude"))
NoSpeed(v) == IsNone(Get(v, "speed")) /\ IsNone(Get(v, "sog"))

\* C14: the text of an alert line has "?" where the record has no value:
\* "?ft" or "Altitude: ? ft" for an aircraft without altitude, "?" before
\* "kn" or "mi" (after "Speed: " or "Distance: ") for a vessel without
\* speed or of indeterminate distance; the other fields stay in place.
C14_MissingValueIsQuestionMark ==
    /\ (pc = "vessels" /\ ac.t = "list" /\ ~had_error)
       => \A n \in Positions(lines) :
             NoAltitude(ac.l[Emitted[n].idx])
             => Text(lines[n]) =
                   IF mesh_compact
                   THEN "<plane> " \o lines[n].label \o " " \o lines[n].dist
                        \o "mi ?ft"
                   ELSE "<plane> Aircraft overhead\nID: " \o lines[n].label
                        \o "\nAltitude: ? ft\nDistance: " \o lines[n].dist
                        \o " mi"
    /\ (pc = "done" /\ mode \in VesselsOnly /\ ships.t = "list" /\ ~had_error)
       => \A n \in Positions(AlertLines) :
             LET v == ships.l[Emitted[n].idx]
                 l == AlertLines[n]
                 d == IF IsNone(VesselDistance(v)) THEN "?" ELSE l.dist
                 k == IF NoSpeed(v) THEN "?" ELSE l.val
             IN Text(l) =
                   IF mesh_compact
                   THEN "<ship> " \o l.label \o " " \o d \o "mi " \o k \o "kn"
                   ELSE "<ship> Vessel nearby\nID: " \o l.label \o "\nSpeed: "
                        \o k \o " kn\nDistance: " \o d \o " mi"

\* The verbose line of an aircraft without an altitude field.
C14_Witness ==
    /\ pc = "vessels" /\ ~mesh_compact
    /\ ac = List(<<AcEdge>>)
    /\ Len(lines) = 1
    /\ Text(lines[1]) =
          "<plane> Aircraft overhead\nID: UAL123\nAltitude: ? ft\nDistance: 10.0 mi"

\* The keys whose entry this invocation has created or refreshed.
Written ==
    {k \in DOMAIN _last_alert_ts :
        k \notin DOMAIN cache0 \/ _last_alert_ts[k] # cache0[k]}

\* C15: when an invocation has returned, every key whose cache entry it
\* created or refreshed has an alert line in the returned lines.
C15_EntryMeansAlertReturned ==
    pc = "done" => \A k \in Written : AlertsOf(lines, k) # {}

\* The field f of v holds text that is not empty once stripped.
NonEmpty(v, f) == IsStr(Get(v, f)) /\ Strip(Get(v, f).s) # ""

\* The label the vessel record v is to carry.
ExpectedVesselLabel(v) ==
    CASE NonEmpty(v, "shipname") -> Strip(Get(v, "shipname").s)
      [] NonEmpty(v, "name") -> Strip(Get(v, "name").s)
      [] NonEmpty(v, "vessel") -> Strip(Get(v, "vessel").s)
      [] NonEmpty(v, "callsign") -> Strip(Get(v, "callsign").s)
      [] OTHER -> IF Truthy(Or(Get(v, "mmsi"), Get(v, "MMSI")))
                  THEN Strip(PyStr(Or(Get(v, "mmsi"), Get(v, "MMSI"))))
                  ELSE "UNKNOWN"

\* C16: every vessel record that reaches the dedupe step does so under the
\* key "sea:" + label, where label is the first non-empty value among
\* shipname, name, vessel and callsign, else the MMSI, else "UNKNOWN"; the
\* label is never empty.
C16_VesselLabelNeverEmpty ==
    (pc = "done" /\ ships.t = "list")
    => \A c \in Calls :
          /\ c.key = "sea:" \o ExpectedVesselLabel(ships.l[c.idx])
          /\ c.key # "sea:"

\* The fetches a mode asks for, in the order of the function.
Requested(m) ==
    CASE m = "aircraft-local" -> <<"Aircraft local">>
      [] m = "aircraft-cloud" -> <<"Aircraft cloud">>
      [] m = "vessels-local" -> <<"Vessel local">>
      [] m = "vessels-cloud" -> <<"Vessel cloud">>
      [] m = "sky_and_sea" -> <<"Aircraft local", "Vessel local">>
      [] OTHER -> <<>>

\* C17: an invocation that has begun returns; when it returns it has
\* attempted the fetch of each category its mode asks for exactly once,
\* whether the fetches raised or not, and at no moment has it attempted one
\* fetch twice.
C17_EachFetchOnceAndReturn ==
    /\ [](pc = "done" => fetch_log = Requested(mode))
    /\ [](\A i, j \in Positions(fetch_log) : fetch_log[i] = fetch_log[j] => i = j)
    /\ (pc \in {"aircraft", "vessels"}) ~> (pc = "done")

\* The combined mode returns after both fetches raised, each attempted once.
C17_Witness ==
    /\ pc = "done" /\ mode = "sky_and_sea"
    /\ ac = FetchRaise /\ ships = FetchRaise
    /\ fetch_log = <<"Aircraft local", "Vessel local">>
    /\ Len(lines) = 2

\* The categories for which the lines ls hold an error sentinel.
Failed(ls) == {ls[i].text : i \in ErrorsOf(ls)}

\* C18: in the polling loop a cycle that has returned, with or without an
\* error, is followed by the sleep and by the start of the next cycle; the
\* only step after a return is the sleep; and a cycle that follows one in
\* which a category failed fetches that category again.
C18_PollLoopGoesOn ==
    /\ \A n \in 1..(MaxShots - 1) :
          (pc = "done" /\ shots = n) ~> (pc = "aircraft" /\ shots = n + 1)
    /\ [][pc = "done" => (pc' = "idle" /\ now' > now)]_vars
    /\ [](pc = "done" /\ Failed(prev.lines) # {}
          => /\ fetch_log = Requested(mode)
             /\ \A i \in ErrorsOf(prev.lines) :
                   \E what \in {"Aircraft local", "Aircraft cloud", "Vessel local",
                                "Vessel cloud"} :
                      /\ prev.lines[i] = ErrorLine(what, mesh_compact)
                      /\ \E j \in Positions(fetch_log) : fetch_log[j] = what)

\* The second cycle of the combined mode has returned an alert after a
\* first cycle in which both fetches failed.
C18_Witness ==
    /\ pc = "done" /\ shots = 2 /\ mode = "sky_and_sea"
    /\ Len(prev.lines) = 2 /\ ErrorsOf(prev.lines) = {1, 2}
    /\ ~had_error /\ AlertKeys(lines) # {}
    /\ fetch_log = <<"Aircraft local", "Vessel local">>

\* The lines of the aircraft category and those of the vessel category.
IsAircraftLine(l) ==
    \/ l.kind = "aircraft"
    \/ l \in {ErrorLine("Aircraft local", mesh_compact),
              ErrorLine("Aircraft cloud", mesh_compact)}
IsVesselLine(l) ==
    \/ l.kind = "vessel"
    \/ l \in {ErrorLine("Vessel local", mesh_compact),
              ErrorLine("Vessel cloud", mesh_compact)}

\* The cache as the calls of the last record loop left it.
AfterCalls == IF sup_log = <<>> THEN cache0 ELSE sup_log[Len(sup_log)].post

\* C19: in the combined mode, when the vessel fetch is about to be made the
\* aircraft fetch has been attempted, every aircraft line is in the result
\* and the cache holds every update of the aircraft loop; the vessel block
\* starts from that cache and only appends vessel lines; so in the returned
\* list no vessel line comes before an aircraft line.
C19_AircraftBeforeVessels ==
    /\ []((pc = "vessels" /\ mode = "sky_and_sea")
          => /\ fetch_log = <<"Aircraft local">> /\ ships = Unbound
             /\ ac.t \in {"raise", "list"}
             /\ \A i \in Positions(lines) : IsAircraftLine(lines[i])
             /\ _last_alert_ts = AfterCalls)
    /\ [][(pc = "vessels" /\ mode = "sky_and_sea")
          => /\ fetch_log' = <<"Aircraft local", "Vessel local">>
             /\ SubSeq(lines', 1, Len(lines)) = lines
             /\ \A i \in (Len(lines) + 1)..Len(lines') :
                   IsVesselLine(lines'[i]) \/ lines'[i] = NoTargetsLine
             /\ sup_log' # <<>> => sup_log'[1].pre = _last_alert_ts]_vars
    /\ []((pc = "done" /\ mode = "sky_and_sea")
          => \A i, j \in Positions(lines) :
                (IsVesselLine(lines[i]) /\ IsAircraftLine(lines[j])) => j < i)

\* Two aircraft alerts followed by a vessel alert.
C19_Witness ==
    /\ pc = "done" /\ mode = "sky_and_sea"
    /\ Len(lines) = 3
    /\ lines[1].kind = "aircraft" /\ lines[2].kind = "aircraft"
    /\ lines[3].kind = "vessel"
    /\ DOMAIN _last_alert_ts = {"air:UAL123", "air:abc123", "sea:EVER GIVEN"}

\* Every key of the first cache is in the second with a time not earlier.
Grows(pre, post) ==
    /\ DOMAIN pre \subseteq DOMAIN post
    /\ \A k \in DOMAIN pre : post[k] >= pre[k]

\* C20: no step of the program removes a key from the suppression cache or
\* moves a stored time back: across every _suppress call, every block of a
\* single-shot invocation and every poll cycle the set of keys only grows,
\* and (the clock never going back) so does each key's time.
C20_CacheOnlyGrows ==
    /\ [][now' >= now /\ Grows(_last_alert_ts, _last_alert_ts')]_vars
    /\ [](\A c \in Calls : c.at <= now /\ Grows(c.pre, c.post))
    /\ [](Grows(cache0, _last_alert_ts))

\* In a second poll cycle, a call that renews the expired entry of a key while
\* another key recorded in the first cycle stays, and a new key is added.
C20_Witness ==
    /\ pc = "done" /\ shots = MaxShots /\ window > 0
    /\ \E c \in Calls :
          /\ c.key \in DOMAIN c.pre /\ c.post[c.key] > c.pre[c.key]
          /\ \E k \in DOMAIN c.pre : k # c.key /\ c.post[k] = c.pre[k] /\ c.post[k] < now
    /\ \E k \in DOMAIN _last_alert_ts : k \notin DOMAIN cache0

\* The records the loops drop before the dedupe step: an aircraft without
\* coordinates, with coordinates float() rejects, or beyond the radius
\* (lines 376-384); a vessel of known distance beyond the radius (line 437).
DroppedAircraft(a) ==
    \/ AircraftDistance(a).res = "skip"
    \/ /\ AircraftDistance(a).res = "ok"
       /\ FloatGt(AircraftDistance(a).dist, Num(SSA_AIRCRAFT_RADIUS_MI))
DroppedVessel(v) ==
    KnownFar(v) /\ VesselRecord(v, EmptyCache, 0, FALSE).res # "raise"

\* A list without its dropped records.
KeptAircraft(list) == SelectSeq(list, LAMBDA a : ~DroppedAircraft(a))
KeptVessels(list) == SelectSeq(list, LAMBDA v : ~DroppedVessel(v))

\* The _suppress calls of a loop without the positions they were made for.
Accesses(calls) ==
    [n \in 1..Len(calls) |-> <<calls[n].key, calls[n].at, calls[n].pre,
                               calls[n].ret, calls[n].post>>]

\* The cache the last record loop started from, when it made a call; the
\* present cache when it made none.
LoopStart == IF sup_log = <<>> THEN _last_alert_ts ELSE sup_log[1].pre

\* C21: a record dropped before the dedupe step makes no _suppress call:
\* a loop reads and writes the cache exactly as it does on the list without
\* the dropped records, and returns the same lines; a list of dropped records
\* alone leaves the cache as it was; and an in-range record that follows
\* dropped records of the same callsign is alerted as the first sighting.
C21_DroppedRecordLeavesCacheAlone ==
    /\ []((pc = "vessels" /\ ac.t = "list")
          => \A i \in Positions(ac.l) :
                DroppedAircraft(ac.l[i]) => ~\E c \in Calls : c.idx = i)
    /\ []((pc = "done" /\ ships.t = "list")
          => \A i \in Positions(ships.l) :
                DroppedVessel(ships.l[i]) => ~\E c \in Calls : c.idx = i)
    /\ []((pc = "vessels" /\ ac.t = "list")
          => LET r == _aircraft_alert_lines(KeptAircraft(ac.l), mesh_compact,
                                            cache0, now)
             IN /\ _last_alert_ts = r.cache
                /\ Accesses(sup_log) = Accesses(r.calls)
                /\ had_error = r.raised
                /\ ~r.raised => lines = r.out
                /\ KeptAircraft(ac.l) = <<>>
                   => (_last_alert_ts = cache0 /\ sup_log = <<>>))
    /\ []((pc = "done" /\ ships.t = "list")
          => LET r == _vessel_alert_lines(KeptVessels(ships.l), mesh_compact,
                                          LoopStart, now)
             IN /\ _last_alert_ts = r.cache
                /\ Accesses(sup_log) = Accesses(r.calls)
                /\ r.raised => had_error
                /\ ~r.raised
                   => SelectSeq(lines, LAMBDA l : l.kind = "vessel") = r.out
                /\ KeptVessels(ships.l) = <<>> => sup_log = <<>>)
    /\ [][(pc = "vessels" /\ sup_log' = <<>>)
          => _last_alert_ts' = _last_alert_ts]_vars
    /\ []((pc = "vessels" /\ ac.t = "list" /\ ~had_error)
          => \A L \in Callsigns : \A j \in Positions(ac.l) :
                (/\ InAircraftRadius(ac.l[j])
                 /\ AircraftIdent(ac.l[j]).callsign = L
                 /\ j > 1
                 /\ \A i \in 1..(j - 1) :
                       /\ DroppedAircraft(ac.l[i])
                       /\ AircraftIdent(ac.l[i]).callsign = L
                 /\ ~Fresh(cache0, "air:" \o L, now))
                => /\ \E c \in Calls : c.idx = j /\ ~c.ret /\ c.pre = cache0
                   /\ AlertsOf(lines, "air:" \o L) # {}
                   /\ window > 0
                      => Cardinality(AlertsOf(lines, "air:" \o L)) = 1)

\* In a second cycle with an empty cache, an aircraft beyond the radius
\* followed by the same callsign in range: the alert of the second is returned
\* and its time is the only entry.
C21_Witness ==
    /\ pc = "vessels" /\ mode = "aircraft-local" /\ window > 0
    /\ shots = MaxShots /\ cache0 = EmptyCache
    /\ ac = List(<<AcFar, AcNear>>)
    /\ Len(lines) = 1 /\ lines[1].kind = "aircraft" /\ lines[1].label = "UAL123"
    /\ DOMAIN _last_alert_ts = {"air:UAL123"}
    /\ _last_alert_ts["air:UAL123"] = now

\* The modes _single_shot has a branch for (lines 499-529), and the names
\* main replaces before it calls _single_shot (lines 543-551).
Recognised ==
    AircraftLocalModes \cup AircraftCloudModes \cup VesselsLocalModes
    \cup VesselsCloudModes \cup {"demo"}
AliasNames == {"sky+sea", "sky-sea", "local", "default", "aircraft_only", "sky",
               "vessels_only", "sea", "aircraft_cloud", "sky_cloud"}

\* C22: _single_shot called with a mode it has no branch for attempts no
\* fetch, binds no fetch result, makes no _suppress call, leaves the cache as
\* it found it, sets no error, and returns the "No aircraft or vessels in
\* range" line alone; main passes no alias name on, and a name it does not
\* replace reaches _single_shot unchanged.
C22_UnknownModeGivesSentinel ==
    /\ mode \notin AliasNames
    /\ (mode \notin Recognised /\ pc \in {"aircraft", "vessels", "done"})
       => /\ fetch_log = <<>>
          /\ ac = Unbound /\ ships = Unbound
          /\ sup_log = <<>>
          /\ _last_alert_ts = cache0
          /\ ~had_error
          /\ lines = IF pc = "done" THEN <<NoTargetsLine>> ELSE <<>>

\* A call with an unknown mode made after a cycle that alerted and recorded
\* an aircraft.
C22_Witness ==
    /\ pc = "done" /\ mode = "off" /\ shots = MaxShots
    /\ AlertsOf(prev.lines, "air:UAL123") # {}
    /\ "air:UAL123" \in DOMAIN _last_alert_ts
    /\ _last_alert_ts = cache0
    /\ fetch_log = <<>>
    /\ lines = <<NoTargetsLine>>

====
